---- MODULE Spec2Model ----
(***************************************************************************)
(* scripts/setup_keycloak.py: readiness polling against the token endpoint *)
(* followed by check-then-create-or-update provisioning of the             *)
(* 'microservices' client, its client roles, the 'microservices-admin'     *)
(* user and that user's MICROSERVICES_ADMIN role mapping.                  *)
(*                                                                         *)
(* The Keycloak realm is the shared state (clients, roles, users,          *)
(* mappings).  Every HTTP request is one step: the backend either handles  *)
(* it (the Kc* operators), answers with an error status and changes        *)
(* nothing, or the request raises (status 0 below).  Only                  *)
(* get_admin_token() catches exceptions; anywhere else a raised request    *)
(* ends the process with a traceback and exit status 1.                    *)
(***************************************************************************)
EXTENDS Integers, Sequences, FiniteSets

VARIABLES clients, roles, users, mappings, run, prev

vars == <<clients, roles, users, mappings, run, prev>>

backend == <<clients, roles, users, mappings>>

\* One operating-system process per element; process 1 is the operator's run.
Procs == {1}

\* ------------------------------------------------------------ constants

\* for i in range(30)
MaxAttempts == 30

\* status_code values the script tests for, and the ones the backend uses
OK == 200
CREATED == 201
NO_CONTENT == 204
NOT_FOUND == 404
CONFLICT == 409
SERVER_ERROR == 500
\* no response at all: requests raised (connection refused, reset, bad JSON)
RAISED == 0

CLIENT_ID == "microservices"

CLIENT_ROLES ==
    << [name |-> "MICROSERVICES_ADMIN", description |-> "Administrator role for microservices client"],
       [name |-> "MICROSERVICES_USER", description |-> "Standard user role for microservices client"] >>

MICROSERVICES_ADMIN_USER ==
    [username |-> "microservices-admin", email |-> "microservices-admin@example.com"]

\* a confidential client without PKCE
client_data_confidential ==
    [clientId |-> CLIENT_ID, publicClient |-> FALSE, pkce |-> ""]

\* the payload of create_client(): the fields the properties speak about
client_data ==
    [clientId |-> CLIENT_ID, publicClient |-> TRUE, pkce |-> "S256"]

\* ---------------------------------------------------- the realm before a run

\* A 'microservices' client somebody configured by hand, before any run.
StaleClient == [id |-> "c0", rep |-> [clientId |-> CLIENT_ID, publicClient |-> FALSE, pkce |-> "plain"]]

StaleRoles == {[name |-> CLIENT_ROLES[k].name, description |-> "custom"] : k \in 1..Len(CLIENT_ROLES)}

StaleUser == [id |-> "u0", rep |-> [username |-> MICROSERVICES_ADMIN_USER.username, email |-> "someone@example.com"]]

StaleMapping == [user |-> StaleUser.id, client |-> StaleClient.id, role |-> "MICROSERVICES_ADMIN"]

\* identifiers the server assigns to what the script creates
NewClientId == "c1"
NewUserId == "u1"

RoleNamed(n) == {r \in roles : r.name = n}

ClientIds == {c.id : c \in clients}

\* ------------------------------------------------------------ Keycloak

\* GET /clients?clientId=microservices
KcGetClients == [st |-> OK, body |-> {c \in clients : c.rep.clientId = CLIENT_ID}]

\* POST /clients: clientId is unique within the realm
KcPostClient(rep) ==
    IF \E c \in clients : c.rep.clientId = rep.clientId
    THEN [st |-> CONFLICT, clients |-> clients]
    ELSE [st |-> CREATED, clients |-> clients \cup {[id |-> NewClientId, rep |-> rep]}]

\* PUT /clients/{id}: full replace of the representation, the id stays
KcPutClient(id, rep) ==
    IF id \in ClientIds
    THEN [st |-> NO_CONTENT, clients |-> {IF c.id = id THEN [c EXCEPT !.rep = rep] ELSE c : c \in clients}]
    ELSE [st |-> NOT_FOUND, clients |-> clients]

\* GET /clients/{uuid}/roles/{name}
KcGetRole(uuid, name) ==
    IF uuid \in ClientIds /\ RoleNamed(name) # {}
    THEN [st |-> OK, body |-> RoleNamed(name)]
    ELSE [st |-> NOT_FOUND, body |-> {}]

\* POST /clients/{uuid}/roles: a role name is unique within the client
KcPostRole(uuid, role) ==
    IF uuid \notin ClientIds THEN [st |-> NOT_FOUND, roles |-> roles]
    ELSE IF RoleNamed(role.name) # {} THEN [st |-> CONFLICT, roles |-> roles]
    ELSE [st |-> CREATED, roles |-> roles \cup {role}]

\* GET /users?username=...&exact=true
KcGetUsers(username) == [st |-> OK, body |-> {u \in users : u.rep.username = username}]

\* POST /users: the username is unique within the realm
KcPostUser(rep) ==
    IF \E u \in users : u.rep.username = rep.username
    THEN [st |-> CONFLICT, users |-> users]
    ELSE [st |-> CREATED, users |-> users \cup {[id |-> NewUserId, rep |-> rep]}]

IsMapped(m) == \E k \in 1..Len(mappings) : mappings[k] = m

\* POST /users/{id}/role-mappings/clients/{uuid} with a one-element list:
\* assigning twice is a no-op, answered as success or as a conflict
KcPostMapping(uid, uuid, role) ==
    LET m == [user |-> uid, client |-> uuid, role |-> role.name] IN
    IF uid \notin {u.id : u \in users} \/ uuid \notin ClientIds \/ role \notin roles
    THEN {[st |-> NOT_FOUND, mappings |-> mappings]}
    ELSE IF IsMapped(m)
    THEN {[st |-> NO_CONTENT, mappings |-> mappings], [st |-> CONFLICT, mappings |-> mappings]}
    ELSE {[st |-> NO_CONTENT, mappings |-> Append(mappings, m)]}

\* An error status, or no answer at all; the realm is left as it is.
FaultStatus == {SERVER_ERROR, RAISED}

\* ------------------------------------------------------------ process state

Fresh ==
    [pc |-> "auth", i |-> 0, token |-> 0, calls |-> 0, sleeps |-> 0,
     client_id |-> "", client_uuid |-> "", role_idx |-> 0, user_id |-> "",
     role |-> {}, assigned |-> "none", exit |-> -1, log |-> <<>>,
     last |-> [st |-> RAISED, hit |-> FALSE, got |-> ""], clean |-> TRUE]

NoTriple == [user |-> "", client |-> "", role |-> ""]

\* What is remembered of the run before this one (nothing, before the
\* first), and in realm the realm as the run under way found it.
NoPrev == [ran |-> FALSE, exit |-> -1, clean |-> FALSE, assigned |-> "none",
           triple |-> NoTriple, realm |-> <<{}, {}, {}, <<>>>>]

Init ==
    /\ clients \in {{}, {StaleClient}}
    /\ roles \in SUBSET StaleRoles
    /\ users \in {{}, {StaleUser}}
    /\ mappings \in {<<>>, <<StaleMapping>>}
    /\ (clients = {} => roles = {})
    /\ (mappings # <<>> => /\ clients # {} /\ users # {}
                           /\ RoleNamed(StaleMapping.role) # {})
    /\ run = [p \in Procs |-> Fresh]
    /\ prev = [NoPrev EXCEPT !.realm = backend]

\* ------------------------------------------------------------ steps

\* a request sent without the token of the run
ReqWithoutToken(fn, m, res, key, at, tok) ==
    [fn |-> fn, m |-> m, res |-> res, key |-> key, at |-> at, tok |-> 0]

\* One request as the run issued it: the function that made it, method and
\* resource, the key looked up or created, the internal id in the URL path
\* and the bearer token sent.
Req(fn, m, res, key, at, tok) ==
    [fn |-> fn, m |-> m, res |-> res, key |-> key, at |-> at, tok |-> tok]

\* The answer to a request: the status (RAISED: none), whether a lookup
\* reported the resource present, and the internal id it returned.
Resp(st, hit, got) == [st |-> st, hit |-> hit, got |-> got]

\* The status each request is expected to be answered with.
Expected(e) ==
    IF e.m = "GET" THEN (IF e.res = "role" THEN {OK, NOT_FOUND} ELSE {OK})
    ELSE IF e.m = "PUT" THEN {NO_CONTENT}
    ELSE IF e.res = "mapping" THEN {NO_CONTENT, CONFLICT}
    ELSE {CREATED}

\* The request e was answered with a: it joins the requests of the run, a is
\* the last answer, and the process goes on as new says.
Advance(p, e, a, new) ==
    run' = [run EXCEPT ![p] = [new EXCEPT !.log = Append(@, e), !.last = a,
                                          !.clean = @ /\ a.st \in Expected(e)]]

\* an exception nobody catches: traceback, exit status 1
Crash(p, e) == Advance(p, e, Resp(RAISED, FALSE, ""), [run[p] EXCEPT !.pc = "crashed", !.exit = 1])

\* the end of main(): the summary is printed and the interpreter exits 0
Done(r) == [r EXCEPT !.pc = "done", !.exit = 0]

First(S) == CHOOSE x \in S : TRUE

\* get_admin_token(): the token of this call, or 0 for None (every
\* exception is caught inside)
get_admin_token(p) == {0, run[p].calls + 1}

\* the sleep moved before the test of the token
AuthenticateSleepsFirst(p) ==
    /\ run[p].pc = "auth"
    /\ \E t \in get_admin_token(p) :
         run' = [run EXCEPT ![p] =
                   IF t # 0
                   THEN [@ EXCEPT !.calls = @ + 1, !.sleeps = @ + 1, !.token = t, !.pc = "c_get"]
                   ELSE [@ EXCEPT !.calls = @ + 1, !.pc = "sleep"]]
    /\ UNCHANGED <<backend, prev>>

\* main(), the head of the loop: one authentication attempt
Authenticate(p) ==
    /\ run[p].pc = "auth"
    /\ \E t \in get_admin_token(p) :
         run' = [run EXCEPT ![p] =
                   IF t # 0
                   THEN [@ EXCEPT !.calls = @ + 1, !.token = t, !.pc = "c_get"]
                   ELSE [@ EXCEPT !.calls = @ + 1, !.pc = "sleep"]]
    /\ UNCHANGED <<backend, prev>>

\* one attempt too many
SleepOffByOne(p) ==
    /\ run[p].pc = "sleep"
    /\ run' = [run EXCEPT ![p] =
                 IF @.i + 1 <= MaxAttempts
                 THEN [@ EXCEPT !.sleeps = @ + 1, !.i = @ + 1, !.pc = "auth"]
                 ELSE [@ EXCEPT !.sleeps = @ + 1, !.i = @ + 1, !.pc = "timed_out", !.exit = 1]]
    /\ UNCHANGED <<backend, prev>>

\* main(): time.sleep(2), then the next iteration or the timeout exit
Sleep(p) ==
    /\ run[p].pc = "sleep"
    /\ run' = [run EXCEPT ![p] =
                 IF @.i + 1 < MaxAttempts
                 THEN [@ EXCEPT !.sleeps = @ + 1, !.i = @ + 1, !.pc = "auth"]
                 ELSE [@ EXCEPT !.sleeps = @ + 1, !.i = @ + 1, !.pc = "timed_out", !.exit = 1]]
    /\ UNCHANGED <<backend, prev>>

\* create_client(): the lookup by clientId
ClientLookup(p) ==
    /\ run[p].pc = "c_get"
    /\ \E resp \in {KcGetClients} \cup {[st |-> f, body |-> {}] : f \in FaultStatus} :
         LET found == resp.st = OK /\ resp.body # {}
             id == IF found THEN First(resp.body).id ELSE ""
             e == Req("create_client", "GET", "client", CLIENT_ID, "", run[p].token)
             a == Resp(resp.st, found, id)
         IN  IF resp.st = RAISED THEN Crash(p, e)
             ELSE IF found
             THEN Advance(p, e, a, [run[p] EXCEPT !.client_id = id, !.pc = "c_put"])
             ELSE Advance(p, e, a, [run[p] EXCEPT !.pc = "c_post"])
    /\ UNCHANGED <<backend, prev>>

\* an update payload that is not the create payload
PutBodyOther == [client_data EXCEPT !.pkce = "plain"]

\* the body of the PUT
PutBody == client_data

\* the PUT addressed by clientId
PutTargetByClientId(r) == CLIENT_ID

\* the target of the PUT: f"{url}/{client_id}"
PutTarget(r) == r.client_id

\* create_client(): the replace of the client that was found
ClientPut(p) ==
    /\ run[p].pc = "c_put"
    /\ \E resp \in {KcPutClient(PutTarget(run[p]), PutBody)}
                     \cup {[st |-> f, clients |-> clients] : f \in FaultStatus} :
         LET e == Req("create_client", "PUT", "client", CLIENT_ID, PutTarget(run[p]), run[p].token)
             a == Resp(resp.st, FALSE, "")
         IN  /\ clients' = resp.clients
             /\ IF resp.st = RAISED THEN Crash(p, e)
                ELSE Advance(p, e, a, [run[p] EXCEPT !.client_id = "", !.pc = "uuid"])
    /\ UNCHANGED <<roles, users, mappings, prev>>

\* a create of the client that is not answered 201 ends the run
ClientPostFatal(p) ==
    /\ run[p].pc = "c_post"
    /\ \E resp \in {KcPostClient(client_data)}
                     \cup {[st |-> f, clients |-> clients] : f \in FaultStatus} :
         LET e == Req("create_client", "POST", "client", CLIENT_ID, "", run[p].token)
             a == Resp(resp.st, FALSE, "")
         IN  /\ clients' = resp.clients
             /\ IF resp.st = RAISED THEN Crash(p, e)
                ELSE IF resp.st = CREATED THEN Advance(p, e, a, [run[p] EXCEPT !.pc = "uuid"])
                ELSE Advance(p, e, a, [run[p] EXCEPT !.pc = "no_uuid", !.exit = 1])
    /\ UNCHANGED <<roles, users, mappings, prev>>

\* create_client(): the create
ClientPost(p) ==
    /\ run[p].pc = "c_post"
    /\ \E resp \in {KcPostClient(client_data)}
                     \cup {[st |-> f, clients |-> clients] : f \in FaultStatus} :
         LET e == Req("create_client", "POST", "client", CLIENT_ID, "", run[p].token)
             a == Resp(resp.st, FALSE, "")
         IN  /\ clients' = resp.clients
             /\ IF resp.st = RAISED THEN Crash(p, e)
                ELSE Advance(p, e, a, [run[p] EXCEPT !.pc = "uuid"])
    /\ UNCHANGED <<roles, users, mappings, prev>>

\* step 3 left out
EnterRolesSkipped(r) == [r EXCEPT !.pc = "u_get"]

\* where main() goes with a client_uuid: create_client_roles(), first role
EnterRoles(r) ==
    IF Len(CLIENT_ROLES) > 0 THEN [r EXCEPT !.role_idx = 1, !.pc = "r_get"]
    ELSE [r EXCEPT !.pc = "u_get"]

\* the test of client_uuid left out
NoClientUuidGoesOn(r) == EnterRoles(r)

\* main(): no client_uuid, sys.exit(1)
NoClientUuid(r) == [r EXCEPT !.pc = "no_uuid", !.exit = 1]

\* main(): get_client_uuid(), and sys.exit(1) without one
GetClientUuid(p) ==
    /\ run[p].pc = "uuid"
    /\ \E resp \in {KcGetClients} \cup {[st |-> f, body |-> {}] : f \in FaultStatus} :
         LET found == resp.st = OK /\ resp.body # {}
             id == IF found THEN First(resp.body).id ELSE ""
             e == Req("get_client_uuid", "GET", "client", CLIENT_ID, "", run[p].token)
             a == Resp(resp.st, found, id)
         IN  IF resp.st = RAISED THEN Crash(p, e)
             ELSE IF found
             THEN Advance(p, e, a, EnterRoles([run[p] EXCEPT !.client_uuid = id]))
             ELSE Advance(p, e, a, NoClientUuid(run[p]))
    /\ UNCHANGED <<backend, prev>>

\* create_client_roles(): the next iteration of the loop, or the return to
\* main(), which calls create_microservices_admin_user()
NextRole(r) ==
    IF r.role_idx < Len(CLIENT_ROLES)
    THEN [r EXCEPT !.role_idx = @ + 1, !.pc = "r_get"]
    ELSE [r EXCEPT !.role_idx = 0, !.pc = "u_get"]

\* a failed create of a role is tried once more, from the check
AfterRolePostRetriesOnce(r, st) ==
    IF st # CREATED /\ \A k \in 1..Len(r.log) :
                          ~(r.log[k].m = "POST" /\ r.log[k].res = "role"
                            /\ r.log[k].key = CLIENT_ROLES[r.role_idx].name)
    THEN [r EXCEPT !.pc = "r_get"]
    ELSE NextRole(r)

\* a failed create returns from create_client_roles()
AfterRolePostReturns(r, st) ==
    IF st = CREATED THEN NextRole(r) ELSE [r EXCEPT !.role_idx = 0, !.pc = "u_get"]

\* what follows a role create that was answered, whatever the status
AfterRolePost(r, st) == NextRole(r)

\* the create issued whatever the check of the role answered
RoleLookupAlwaysCreates(p) ==
    /\ run[p].pc = "r_get"
    /\ LET name == CLIENT_ROLES[run[p].role_idx].name IN
       \E resp \in {KcGetRole(run[p].client_uuid, name)}
                     \cup {[st |-> f, body |-> {}] : f \in FaultStatus} :
         LET e == Req("create_client_roles", "GET", "role", name, run[p].client_uuid, run[p].token)
             a == Resp(resp.st, resp.st = OK, "")
         IN  IF resp.st = RAISED THEN Crash(p, e)
             ELSE Advance(p, e, a, [run[p] EXCEPT !.pc = "r_post"])
    /\ UNCHANGED <<backend, prev>>

\* create_client_roles(): the check of one role
RoleLookup(p) ==
    /\ run[p].pc = "r_get"
    /\ LET name == CLIENT_ROLES[run[p].role_idx].name IN
       \E resp \in {KcGetRole(run[p].client_uuid, name)}
                     \cup {[st |-> f, body |-> {}] : f \in FaultStatus} :
         LET e == Req("create_client_roles", "GET", "role", name, run[p].client_uuid, run[p].token)
             a == Resp(resp.st, resp.st = OK, "")
         IN  IF resp.st = RAISED THEN Crash(p, e)
             ELSE IF resp.st = OK THEN Advance(p, e, a, NextRole(run[p]))
             ELSE Advance(p, e, a, [run[p] EXCEPT !.pc = "r_post"])
    /\ UNCHANGED <<backend, prev>>

\* create_client_roles(): the create of one role
RolePost(p) ==
    /\ run[p].pc = "r_post"
    /\ LET role == CLIENT_ROLES[run[p].role_idx] IN
       \E resp \in {KcPostRole(run[p].client_uuid, role)}
                     \cup {[st |-> f, roles |-> roles] : f \in FaultStatus} :
         LET e == Req("create_client_roles", "POST", "role", role.name, run[p].client_uuid, run[p].token)
             a == Resp(resp.st, FALSE, "")
         IN  /\ roles' = resp.roles
             /\ IF resp.st = RAISED THEN Crash(p, e)
                ELSE Advance(p, e, a, AfterRolePost(run[p], resp.st))
    /\ UNCHANGED <<clients, users, mappings, prev>>

\* get_user_by_username() as create_microservices_admin_user() calls it
\* first: the user found, or the create
UserLookup(p) ==
    /\ run[p].pc = "u_get"
    /\ \E resp \in {KcGetUsers(MICROSERVICES_ADMIN_USER.username)}
                     \cup {[st |-> f, body |-> {}] : f \in FaultStatus} :
         LET found == resp.st = OK /\ resp.body # {}
             id == IF found THEN First(resp.body).id ELSE ""
             e == Req("create_microservices_admin_user", "GET", "user", MICROSERVICES_ADMIN_USER.username, "", run[p].token)
             a == Resp(resp.st, found, id)
         IN  IF resp.st = RAISED THEN Crash(p, e)
             ELSE IF found
             THEN Advance(p, e, a, [run[p] EXCEPT !.user_id = id, !.pc = "a_get"])
             ELSE Advance(p, e, a, [run[p] EXCEPT !.pc = "u_post"])
    /\ UNCHANGED <<backend, prev>>

\* a failed create of the user goes on to the role assignment
UserCreateFailedGoesOn(r) == [r EXCEPT !.pc = "a_get"]

\* create_microservices_admin_user(): "Failed to create user", return
UserCreateFailed(r) == Done(r)

\* create_microservices_admin_user(): the create of the user
UserPost(p) ==
    /\ run[p].pc = "u_post"
    /\ \E resp \in {KcPostUser(MICROSERVICES_ADMIN_USER)}
                     \cup {[st |-> f, users |-> users] : f \in FaultStatus} :
         LET e == Req("create_microservices_admin_user", "POST", "user", MICROSERVICES_ADMIN_USER.username, "", run[p].token)
             a == Resp(resp.st, FALSE, "")
         IN  /\ users' = resp.users
             /\ IF resp.st = RAISED THEN Crash(p, e)
                ELSE IF resp.st = CREATED
                THEN Advance(p, e, a, [run[p] EXCEPT !.pc = "u_reget"])
                ELSE Advance(p, e, a, UserCreateFailed(run[p]))
    /\ UNCHANGED <<clients, roles, mappings, prev>>

\* create_microservices_admin_user(): the lookup of the user just created
UserRelookup(p) ==
    /\ run[p].pc = "u_reget"
    /\ \E resp \in {KcGetUsers(MICROSERVICES_ADMIN_USER.username)}
                     \cup {[st |-> f, body |-> {}] : f \in FaultStatus} :
         LET found == resp.st = OK /\ resp.body # {}
             id == IF found THEN First(resp.body).id ELSE ""
             e == Req("create_microservices_admin_user", "GET", "user", MICROSERVICES_ADMIN_USER.username, "", run[p].token)
             a == Resp(resp.st, found, id)
         IN  IF resp.st = RAISED THEN Crash(p, e)
             ELSE IF found
             THEN Advance(p, e, a, [run[p] EXCEPT !.user_id = id, !.pc = "a_get"])
             ELSE Advance(p, e, a, Done(run[p]))
    /\ UNCHANGED <<backend, prev>>

\* assign_client_role_to_user(): get_client_role()
AssignRoleLookup(p) ==
    /\ run[p].pc = "a_get"
    /\ \E resp \in {KcGetRole(run[p].client_uuid, "MICROSERVICES_ADMIN")}
                     \cup {[st |-> f, body |-> {}] : f \in FaultStatus} :
         LET e == Req("assign_client_role_to_user", "GET", "role", "MICROSERVICES_ADMIN", run[p].client_uuid, run[p].token)
             a == Resp(resp.st, resp.st = OK, "")
         IN  IF resp.st = RAISED THEN Crash(p, e)
             ELSE IF resp.st = OK
             THEN Advance(p, e, a, [run[p] EXCEPT !.role = resp.body, !.pc = "a_post"])
             ELSE Advance(p, e, a, Done([run[p] EXCEPT !.assigned = "norole"]))
    /\ UNCHANGED <<backend, prev>>

\* the conflict branch left out
AssignReportNoConflict(st) == IF st = NO_CONTENT THEN "ok" ELSE "failed"

\* assign_client_role_to_user(): what the answer to the mapping POST is
\* reported as
AssignReport(st) ==
    IF st = NO_CONTENT THEN "ok"
    ELSE IF st = CONFLICT THEN "already"
    ELSE "failed"

\* assign_client_role_to_user(): the POST of the one-element role list
AssignPost(p) ==
    /\ run[p].pc = "a_post"
    /\ \E resp \in KcPostMapping(run[p].user_id, run[p].client_uuid, First(run[p].role))
                     \cup {[st |-> f, mappings |-> mappings] : f \in FaultStatus} :
         LET e == Req("assign_client_role_to_user", "POST", "mapping", "MICROSERVICES_ADMIN", run[p].user_id, run[p].token)
             a == Resp(resp.st, FALSE, "")
         IN  /\ mappings' = resp.mappings
             /\ IF resp.st = RAISED THEN Crash(p, e)
                ELSE Advance(p, e, a, Done([run[p] EXCEPT !.assigned = AssignReport(resp.st)]))
    /\ UNCHANGED <<clients, roles, users, prev>>

Terminal == {"done", "timed_out", "no_uuid", "crashed"}

Step(p) ==
    \/ Authenticate(p)
    \/ Sleep(p)
    \/ ClientLookup(p)
    \/ ClientPut(p)
    \/ ClientPost(p)
    \/ GetClientUuid(p)
    \/ RoleLookup(p)
    \/ RolePost(p)
    \/ UserLookup(p)
    \/ UserPost(p)
    \/ UserRelookup(p)
    \/ AssignRoleLookup(p)
    \/ AssignPost(p)

Next == \E p \in Procs : Step(p)

\* One run of the script against any realm.
Spec == Init /\ [][Next]_vars

\* One run in which the process is never suspended for good: the script is
\* sequential and every call blocks only until it is answered or raises.
SpecFair == Spec /\ WF_vars(Next)

\* ------------------------------------------------------------ running again

\* The (user, client, role) triple of the run's mapping POST, if it made one.
TripleOf(r) ==
    IF r.assigned \in {"ok", "already", "failed"}
    THEN [user |-> r.user_id, client |-> r.client_uuid, role |-> First(r.role).name]
    ELSE NoTriple

\* The operator runs the script again once the process has exited: a new
\* process, against the realm as the last one left it.
Rerun(p) ==
    /\ run[p].pc \in Terminal
    /\ prev' = [ran |-> TRUE, exit |-> run[p].exit,
                clean |-> run[p].exit = 0 /\ run[p].clean,
                assigned |-> run[p].assigned, triple |-> TripleOf(run[p]),
                realm |-> backend]
    /\ run' = [run EXCEPT ![p] = Fresh]
    /\ UNCHANGED backend

NextRerun == Next \/ \E p \in Procs : Rerun(p)

\* Runs of the script one after the other, each from the realm the last left.
SpecRerun == Init /\ [][NextRerun]_vars

\* ------------------------------------------------------------ two runs at once

\* Two operators start the script at about the same time.
Pair == {1, 2}

InitPair ==
    /\ clients \in {{}, {StaleClient}}
    /\ roles \in SUBSET StaleRoles
    /\ users \in {{}, {StaleUser}}
    /\ mappings \in {<<>>, <<StaleMapping>>}
    /\ (clients = {} => roles = {})
    /\ (mappings # <<>> => /\ clients # {} /\ users # {}
                           /\ RoleNamed(StaleMapping.role) # {})
    /\ run = [p \in Pair |-> Fresh]
    /\ prev = [NoPrev EXCEPT !.realm = backend]

\* Keycloak is up and handles the request of p's step: the token is
\* returned at once, and no request is answered with a server error or
\* left without an answer.
Healthy(p) ==
    /\ run'[p].pc \notin {"sleep", "crashed"}
    /\ Len(run'[p].log) > Len(run[p].log) => run'[p].last.st \notin FaultStatus

\* one step of main() in process p, against a healthy Keycloak
PairStep(p) ==
    /\ \/ Authenticate(p)
       \/ ClientLookup(p)
       \/ ClientPut(p)
       \/ ClientPost(p)
       \/ GetClientUuid(p)
       \/ RoleLookup(p)
       \/ RolePost(p)
       \/ UserLookup(p)
       \/ UserPost(p)
       \/ UserRelookup(p)
       \/ AssignRoleLookup(p)
       \/ AssignPost(p)
    /\ Healthy(p)

NextPair == \E p \in Pair : PairStep(p)

\* Two runs whose requests reach one realm in any order; each process goes
\* on as long as it has a step to take.
SpecPair == InitPair /\ [][NextPair]_vars /\ \A p \in Pair : WF_vars(PairStep(p))

\* ------------------------------------------------------------ properties

Last(L) == L[Len(L)]

\* the positions of the run's requests that satisfy Q
Where(L, Q(_)) == {k \in 1..Len(L) : Q(L[k])}

\* No key is held twice: one client per clientId, one role per name, one
\* user per username, one mapping per (user, client, role).
NoDuplicates ==
    /\ \A c, d \in clients : c.rep.clientId = d.rep.clientId => c = d
    /\ \A r, q \in roles : r.name = q.name => r = q
    /\ \A u, v \in users : u.rep.username = v.rep.username => u = v
    /\ \A j, k \in 1..Len(mappings) : mappings[j] = mappings[k] => j = k

\* C1, as claimed: after two runs in a row that both reached the end of
\* main(), the realm is what the first run left, and no key is ever held
\* twice.
C1_TwoRunsSameRealm ==
    /\ NoDuplicates
    /\ \A p \in Procs :
         (prev.ran /\ prev.exit = 0 /\ run[p].pc = "done") => backend = prev.realm

\* C1, amended: when the run before ended with status 0 and had every one of
\* its provisioning requests answered with the expected status, the run after
\* it never changes the realm (clients, roles, users, mappings); and no key
\* is ever held twice.
C1_RerunAfterCleanRun ==
    /\ NoDuplicates
    /\ (prev.ran /\ prev.clean) => backend = prev.realm

\* a second run that found the client and replaced it, after a clean first
C1_Witness ==
    \E p \in Procs :
        /\ prev.ran /\ prev.clean /\ run[p].pc = "done"
        /\ Where(run[p].log, LAMBDA e : e.m = "PUT") # {}

\* C2: a run whose k-th call of get_admin_token() returned the token
\* (1 <= k <= 30) made exactly k calls and k-1 sleeps, is in or past
\* provisioning, and has not timed out.
C2_ReadyAfterKAttempts ==
    \A p \in Procs :
        run[p].token # 0 =>
            /\ run[p].token \in 1..MaxAttempts
            /\ run[p].calls = run[p].token
            /\ run[p].sleeps = run[p].token - 1
            /\ run[p].pc \notin {"auth", "sleep", "timed_out"}

\* the token came with the last attempt of the budget
C2_Witness ==
    \E p \in Procs : run[p].token = MaxAttempts /\ run[p].pc = "c_get" /\ run[p].sleeps = MaxAttempts - 1

\* C3: a run ends timed out only after exactly 30 failed authentication
\* attempts, with exit status 1; and as long as no call returned a token the
\* run has issued no provisioning request, has made at most 30 calls, and
\* after the 30th makes no other.
C3_TimeoutAfterAllAttempts ==
    \A p \in Procs :
        /\ run[p].pc = "timed_out" =>
               run[p].calls = MaxAttempts /\ run[p].token = 0 /\ run[p].exit = 1
        /\ run[p].token = 0 =>
               /\ run[p].log = <<>>
               /\ run[p].calls <= MaxAttempts
               /\ (run[p].calls = MaxAttempts => run[p].pc \in {"sleep", "timed_out"})
               /\ (run[p].pc \in Terminal => run[p].pc = "timed_out")

C3_Witness ==
    \E p \in Procs : run[p].pc = "timed_out" /\ run[p].calls = MaxAttempts /\ run[p].log = <<>>

\* the step of p issues the create of a client, a role or the user
IssuesCreate(p) ==
    /\ Len(run'[p].log) = Len(run[p].log) + 1
    /\ Last(run'[p].log).m = "POST"
    /\ Last(run'[p].log).res \in {"client", "role", "user"}

\* the last request of p was a lookup of e's key that reported it absent:
\* an empty list (client, user), a not-found answer (role)
ReportedAbsent(p, e) ==
    /\ run[p].log # <<>>
    /\ Last(run[p].log).m = "GET"
    /\ Last(run[p].log).res = e.res
    /\ Last(run[p].log).key = e.key
    /\ IF e.res = "role" THEN run[p].last.st = NOT_FOUND
       ELSE run[p].last.st = OK /\ ~run[p].last.hit

\* C4: every create is issued right after a lookup of the same key, and only
\* when that lookup reported the resource absent; a lookup answered with
\* another error status is not followed by a create.
C4_CreateOnlyWhenAbsent ==
    [][\A p \in Procs : IssuesCreate(p) => ReportedAbsent(p, Last(run'[p].log))]_vars

\* the writes create_client() has issued
ClientWrites(L) == Where(L, LAMBDA e : e.fn = "create_client" /\ e.m \in {"PUT", "POST"})

\* C5: create_client() issues its one write right after its lookup: once the
\* lookup is answered and create_client() is past its write, the run holds
\* exactly one write of create_client(), never two; a PUT if and only if the
\* lookup returned a client, then with that client's internal id as target,
\* and a POST otherwise.
C5_ClientUpsertBranching ==
    /\ [](\A p \in Procs :
            /\ Cardinality(ClientWrites(run[p].log)) <= 1
            /\ Len(run[p].log) >= 2 => ClientWrites(run[p].log) = {2}
            /\ run[p].pc \in {"uuid", "r_get", "r_post", "u_get", "u_post", "u_reget",
                               "a_get", "a_post", "done", "no_uuid"}
                   => ClientWrites(run[p].log) = {2})
    /\ [][\A p \in Procs :
            (/\ Len(run'[p].log) = Len(run[p].log) + 1
             /\ Last(run'[p].log).fn = "create_client"
             /\ Last(run'[p].log).m # "GET")
            => /\ Len(run[p].log) = 1
               /\ run[p].log[1].fn = "create_client" /\ run[p].log[1].m = "GET"
               /\ IF run[p].last.hit
                  THEN /\ Last(run'[p].log).m = "PUT"
                       /\ Last(run'[p].log).at = run[p].last.got
                       /\ run[p].last.got \in ClientIds
                  ELSE Last(run'[p].log).m = "POST"]_vars

\* the replace of the client that was there before the run
C5_Witness ==
    \E p \in Procs :
        /\ run[p].pc = "uuid" /\ Len(run[p].log) = 2
        /\ run[p].log[2].m = "PUT" /\ run[p].log[2].at = StaleClient.id
        /\ run[p].last.st = NO_CONTENT

\* how often the triple t is mapped
TimesMapped(t) == Cardinality({k \in 1..Len(mappings) : mappings[k] = t})

\* C6: when the run before reported the role assigned and this run posts the
\* same (user, client, role) triple again, the answer is not a not-found; if
\* it is the success or the conflict status this run reports success too; and
\* from the first success on the triple is mapped exactly once.
C6_AssignTwice ==
    \A p \in Procs :
        prev.assigned \in {"ok", "already"} =>
            /\ TimesMapped(prev.triple) = 1
            /\ (run[p].pc = "done" /\ TripleOf(run[p]) = prev.triple) =>
                   /\ run[p].last.st # NOT_FOUND
                   /\ run[p].last.st \in {NO_CONTENT, CONFLICT} =>
                          run[p].assigned \in {"ok", "already"}

\* the second assignment, answered with the conflict status
C6_Witness ==
    \E p \in Procs :
        /\ prev.assigned = "ok" /\ run[p].pc = "done"
        /\ TripleOf(run[p]) = prev.triple /\ run[p].last.st = CONFLICT
        /\ run[p].assigned = "already"

\* C7: when the last request is get_client_uuid()'s lookup and it found no
\* client, the process has ended with exit status 1; any request after that
\* lookup is made with the client id it returned, so a run without one
\* issues no role, user or role-mapping request.
C7_NoClientIdIsFatal ==
    \A p \in Procs :
        /\ (run[p].log # <<>> /\ Last(run[p].log).fn = "get_client_uuid" /\ ~run[p].last.hit)
               => run[p].pc \in {"no_uuid", "crashed"} /\ run[p].exit = 1
        /\ run[p].pc = "no_uuid" =>
               /\ Last(run[p].log).fn = "get_client_uuid"
               /\ Where(run[p].log, LAMBDA e : e.res \in {"role", "user", "mapping"}) = {}
        /\ \A k \in 1..Len(run[p].log) :
               run[p].log[k].res \in {"role", "user", "mapping"} => run[p].client_uuid # ""

\* the create failed and the list of clients came back empty
C7_Witness ==
    \E p \in Procs :
        /\ run[p].pc = "no_uuid" /\ run[p].exit = 1
        /\ run[p].last.st = OK /\ Len(run[p].log) = 3 /\ clients = {}

\* C8: whatever the answer to a request of create_client(), and also when
\* the request fails, the run is not over: it is inside create_client() or
\* at the client-id lookup.
C8_ClientUpsertNeverFatal ==
    \A p \in Procs :
        (run[p].log # <<>> /\ Last(run[p].log).fn = "create_client")
            => run[p].pc \in {"c_put", "c_post", "uuid"}

\* the step of main() a request belongs to
StepOf(e) ==
    IF e.fn = "create_client" THEN 1
    ELSE IF e.fn = "get_client_uuid" THEN 2
    ELSE IF e.fn = "create_client_roles" THEN 3
    ELSE IF e.fn = "create_microservices_admin_user" THEN 4
    ELSE 5

\* C9: no request is issued before a token was returned; the requests of a
\* run are in the order client upsert, client-id lookup, role upserts, user
\* upsert, role assignment, so no step is entered again once a later one has
\* begun; the client-id lookup is made once; and a run that reaches the end
\* of main() has been through the first four steps.
C9_StrictStepOrder ==
    \A p \in Procs :
        LET L == run[p].log IN
        /\ L # <<>> => run[p].token # 0 /\ StepOf(L[1]) = 1
        /\ \A j, k \in 1..Len(L) : j < k => StepOf(L[j]) <= StepOf(L[k])
        /\ Cardinality(Where(L, LAMBDA e : StepOf(e) = 2)) <= 1
        /\ run[p].pc = "done" => \A n \in 1..4 : Where(L, LAMBDA e : StepOf(e) = n) # {}
        /\ run[p].pc \in {"a_get", "a_post"} => \A n \in 1..4 : Where(L, LAMBDA e : StepOf(e) = n) # {}

\* a run through all five steps
C9_Witness ==
    \E p \in Procs :
        /\ run[p].pc = "done"
        /\ \A n \in 1..5 : Where(run[p].log, LAMBDA e : StepOf(e) = n) # {}

\* C10: a role create answered with a status other than 201 is followed by
\* the lookup of the next role of CLIENT_ROLES, or after the last role by the
\* user step; so a run that is in the user step or past it has looked up
\* every role of CLIENT_ROLES.
C10_RoleLoopGoesOn ==
    /\ [](\A p \in Procs :
            run[p].pc \in {"u_get", "u_post", "u_reget", "a_get", "a_post", "done"} =>
                \A n \in 1..Len(CLIENT_ROLES) :
                    Where(run[p].log, LAMBDA e : e.fn = "create_client_roles" /\ e.m = "GET"
                                                 /\ e.key = CLIENT_ROLES[n].name) # {})
    /\ [][\A p \in Procs :
            (/\ run[p].pc = "r_post" /\ run'[p].pc # "r_post"
             /\ run'[p].last.st \notin {CREATED, RAISED})
            => IF run[p].role_idx < Len(CLIENT_ROLES)
               THEN run'[p].pc = "r_get" /\ run'[p].role_idx = run[p].role_idx + 1
               ELSE run'[p].pc = "u_get"]_vars

\* both role creates failed and the user step is entered
C10_Witness ==
    \E p \in Procs :
        /\ run[p].pc = "u_get" /\ roles = {} /\ clients # {}
        /\ Cardinality(Where(run[p].log, LAMBDA e : e.fn = "create_client_roles" /\ e.m = "POST")) = Len(CLIENT_ROLES)

\* the step of p issues the POST of a role mapping
IssuesMapping(p) ==
    /\ Len(run'[p].log) = Len(run[p].log) + 1
    /\ Last(run'[p].log).res = "mapping"

\* the step of p takes it out of location loc
Leaves(p, loc) == run[p].pc = loc /\ run'[p].pc # loc

\* C11: the role-mapping POST is issued only right after
\* assign_client_role_to_user()'s lookup of the role answered 200, by a run
\* that holds a user id, and it is addressed to that user id; a user id is
\* only ever taken from a user lookup that found the user; and a user create
\* not answered 201, a lookup after the create that finds nothing, and a
\* role lookup not answered 200 each end the run without a mapping request.
C11_AssignNeedsUserAndRole ==
    /\ [](\A p \in Procs :
            /\ run[p].pc \in {"a_get", "a_post"} => run[p].user_id # ""
            /\ run[p].pc = "a_post" => run[p].role # {}
            /\ \A k \in 1..Len(run[p].log) :
                   run[p].log[k].res = "mapping" =>
                       /\ run[p].user_id # "" /\ run[p].log[k].at = run[p].user_id
                       /\ run[p].role # {}
                       /\ k > 1 /\ run[p].log[k - 1].fn = "assign_client_role_to_user"
                       /\ run[p].log[k - 1].m = "GET"
                       /\ Where(run[p].log, LAMBDA e : e.res = "user" /\ e.m = "GET") # {})
    /\ [][\A p \in Procs :
            /\ (run'[p].user_id # run[p].user_id /\ run'[p].user_id # "") =>
                   /\ Len(run'[p].log) = Len(run[p].log) + 1
                   /\ Last(run'[p].log).res = "user" /\ Last(run'[p].log).m = "GET"
                   /\ run'[p].last.hit /\ run'[p].user_id = run'[p].last.got
            /\ IssuesMapping(p) =>
                   /\ Last(run[p].log).fn = "assign_client_role_to_user"
                   /\ Last(run[p].log).m = "GET" /\ run[p].last.st = OK
            /\ (Leaves(p, "u_post") /\ run'[p].last.st # CREATED) => run'[p].pc \in {"done", "crashed"}
            /\ (Leaves(p, "u_reget") /\ ~run'[p].last.hit) => run'[p].pc \in {"done", "crashed"}
            /\ (Leaves(p, "a_get") /\ run'[p].last.st # OK) => run'[p].pc \in {"done", "crashed"}]_vars

\* the user was created, looked up again, and given the role
C11_Witness ==
    \E p \in Procs :
        /\ run[p].pc = "done" /\ run[p].assigned = "ok" /\ run[p].user_id = NewUserId
        /\ Where(run[p].log, LAMBDA e : e.res = "user" /\ e.m = "POST") # {}
        /\ Where(run[p].log, LAMBDA e : e.res = "mapping") # {}

\* C12: once a call of get_admin_token() has returned a token the run makes
\* no other call of it and keeps that token, and every request of the run
\* carries it.
C12_SingleSession ==
    /\ [](\A p \in Procs :
            \A k \in 1..Len(run[p].log) :
                run[p].token # 0 /\ run[p].log[k].tok = run[p].token)
    /\ [][\A p \in Procs :
            run[p].token # 0 =>
                run'[p].token = run[p].token /\ run'[p].calls = run[p].calls]_vars

\* a whole run on the token of the third call
C12_Witness ==
    \E p \in Procs :
        /\ run[p].pc = "done" /\ run[p].token = 3 /\ run[p].calls = 3
        /\ Len(run[p].log) >= 10
        /\ \A k \in 1..Len(run[p].log) : run[p].log[k].tok = 3

\* the run of p found a realm without the client and without the user, got
\* every request answered with its expected status, and is at the end of
\* main()
CleanRunFromEmpty(p) ==
    /\ prev.realm[1] = {} /\ prev.realm[3] = {}
    /\ run[p].pc = "done" /\ run[p].clean

\* C13: a run from a realm with no 'microservices' client and no
\* 'microservices-admin' user, with every request answered as expected, ends
\* with exactly one client with clientId 'microservices', public and with
\* PKCE method S256; each role of CLIENT_ROLES under it, once; exactly one
\* user 'microservices-admin'; and MICROSERVICES_ADMIN mapped to that user,
\* once.
C13_EndStateFromEmpty ==
    \A p \in Procs :
        CleanRunFromEmpty(p) =>
            /\ Cardinality({c \in clients : c.rep.clientId = CLIENT_ID}) = 1
            /\ \A c \in clients :
                   c.rep.clientId = CLIENT_ID => c.rep.publicClient /\ c.rep.pkce = "S256"
            /\ \A n \in 1..Len(CLIENT_ROLES) : RoleNamed(CLIENT_ROLES[n].name) = {CLIENT_ROLES[n]}
            /\ Cardinality({u \in users : u.rep.username = MICROSERVICES_ADMIN_USER.username}) = 1
            /\ \A u \in users : \A c \in clients :
                   TimesMapped([user |-> u.id, client |-> c.id, role |-> "MICROSERVICES_ADMIN"]) = 1
            /\ Len(mappings) = 1

C13_Witness ==
    \E p \in Procs :
        /\ CleanRunFromEmpty(p)
        /\ clients = {[id |-> NewClientId, rep |-> client_data]}
        /\ users = {[id |-> NewUserId, rep |-> MICROSERVICES_ADMIN_USER]}
        /\ run[p].assigned = "ok"

\* the step is p's PUT of the client with internal id id, made right after
\* create_client()'s lookup returned that id
ReplacesLookedUp(p, id) ==
    /\ Len(run'[p].log) = Len(run[p].log) + 1
    /\ Last(run'[p].log).m = "PUT" /\ Last(run'[p].log).fn = "create_client"
    /\ Last(run'[p].log).at = id
    /\ Len(run[p].log) = 1 /\ run[p].log[1].fn = "create_client" /\ run[p].log[1].m = "GET"
    /\ run[p].last.hit /\ run[p].last.got = id

\* C14: no step removes a client, a role, a user or a role mapping, and no
\* request has another method than GET, POST and PUT; roles, users and
\* mappings are never rewritten; a client's record changes only by the PUT
\* of create_client(), addressed to the internal id that its lookup just
\* returned, and the client keeps that id.
C14_NothingRemoved ==
    [][/\ ClientIds \subseteq {c.id : c \in clients'}
       /\ roles \subseteq roles'
       /\ users \subseteq users'
       /\ Len(mappings') >= Len(mappings)
       /\ \A k \in 1..Len(mappings) : mappings'[k] = mappings[k]
       /\ \A c \in clients : c \notin clients' => \E p \in Procs : ReplacesLookedUp(p, c.id)
       /\ \A p \in Procs :
            Len(run'[p].log) = Len(run[p].log) + 1 =>
                /\ Last(run'[p].log).m \in {"GET", "POST", "PUT"}
                /\ Last(run'[p].log).m = "PUT" => ReplacesLookedUp(p, Last(run'[p].log).at)]_vars

\* the client that was there before the run, replaced under its own id
C14_Witness ==
    \E p \in Procs :
        /\ run[p].pc = "uuid" /\ prev.realm[1] = {StaleClient}
        /\ clients = {[id |-> StaleClient.id, rep |-> client_data]}

\* C15, as claimed: a run that timed out has slept once less than it made
\* attempts, 29 times.
C15_SleepOnlyBetweenAttempts ==
    \A p \in Procs : run[p].pc = "timed_out" => run[p].sleeps = MaxAttempts - 1

\* What main() does: one sleep after every failed attempt, the last of the
\* budget included, and none after the successful one.
SleepAfterEveryFailure ==
    \A p \in Procs :
        /\ run[p].pc = "auth" => run[p].sleeps = run[p].calls /\ run[p].token = 0
        /\ run[p].pc = "sleep" => run[p].sleeps = run[p].calls - 1 /\ run[p].token = 0
        /\ run[p].token # 0 => run[p].sleeps = run[p].calls - 1
        /\ run[p].pc = "timed_out" =>
               run[p].sleeps = MaxAttempts /\ run[p].calls = MaxAttempts

\* the sleep after the 30th failed attempt has been made
SleptAfterLastAttempt ==
    \E p \in Procs : run[p].pc = "timed_out" /\ run[p].sleeps = MaxAttempts /\ run[p].token = 0

\* the step of p appends a request with method m on resource res
Issues(p, m, res) ==
    /\ Len(run'[p].log) = Len(run[p].log) + 1
    /\ Last(run'[p].log).m = m /\ Last(run'[p].log).res = res

\* C16: a role or a user that a lookup found is not written.  The create of
\* a role is issued only right after create_client_roles() looked up that
\* name and did not find it, and each name is looked up there once; the
\* create of the user only right after the first lookup of the user did not
\* find one; no request updates a role or a user.  So the roles and the
\* users that the run found in the realm are still there as they were
\* (description, email and the rest), whatever the run adds.
C16_FoundIsLeftUntouched ==
    /\ [](\A p \in Procs :
            /\ run[p].pc \in {"r_post", "u_post"} => ~run[p].last.hit
            /\ \A j, k \in Where(run[p].log, LAMBDA e : e.fn = "create_client_roles" /\ e.m = "GET") :
                   run[p].log[j].key = run[p].log[k].key => j = k
            /\ \A e \in {run[p].log[k] : k \in 1..Len(run[p].log)} :
                   e.res \in {"role", "user"} => e.m \in {"GET", "POST"}
            /\ prev.realm[2] \subseteq roles
            /\ prev.realm[3] \subseteq users)
    /\ [][/\ roles \subseteq roles'
          /\ users \subseteq users'
          /\ \A p \in Procs :
               /\ Issues(p, "POST", "role") =>
                      /\ run[p].log # <<>> /\ ~run[p].last.hit
                      /\ LET g == Last(run[p].log) IN
                            /\ g.fn = "create_client_roles" /\ g.m = "GET" /\ g.res = "role"
                            /\ g.key = Last(run'[p].log).key
               /\ Issues(p, "POST", "user") =>
                      /\ run[p].log # <<>> /\ ~run[p].last.hit
                      /\ LET g == Last(run[p].log) IN g.m = "GET" /\ g.res = "user"
                      /\ Where(run[p].log, LAMBDA e : e.res = "user") = {Len(run[p].log)}
               /\ (Issues(p, "GET", "role") /\ run'[p].last.hit) => run'[p].pc # "r_post"
               /\ (Issues(p, "GET", "user") /\ run'[p].last.hit) => run'[p].pc = "a_get"]_vars

\* both roles and the user were there: the run wrote none of them and
\* added the mapping
C16_Witness ==
    \E p \in Procs :
        /\ run[p].pc = "done" /\ run[p].assigned = "ok"
        /\ prev.realm[2] = StaleRoles /\ prev.realm[3] = {StaleUser} /\ prev.realm[4] = <<>>
        /\ roles = StaleRoles /\ users = {StaleUser} /\ Len(mappings) = 1
        /\ Where(run[p].log, LAMBDA e : e.m = "POST" /\ e.res \in {"role", "user"}) = {}

\* C17: a run that acquired a token and whose client-id lookup returned an
\* id ends with status 0, whatever happens to the requests after it; and
\* only such a run ends with status 0.
C17_ExitZeroIffReadyAndClientId ==
    \A p \in Procs :
        run[p].pc \in Terminal =>
            (run[p].exit = 0 <=> (run[p].token # 0 /\ run[p].client_uuid # ""))

\* the run ends, after at most 30 attempts, with the status of its outcome;
\* a run stops outside the three exits of main() only when a request raised
EndsWithinBudget ==
    /\ <>(\A p \in Procs : run[p].pc \in Terminal)
    /\ [](\A p \in Procs :
            /\ run[p].calls <= MaxAttempts
            /\ run[p].pc = "done" => run[p].exit = 0 /\ run[p].token # 0
            /\ run[p].pc \in {"timed_out", "no_uuid"} => run[p].exit = 1
            /\ run[p].pc = "crashed" =>
                   run[p].exit = 1 /\ run[p].log # <<>> /\ run[p].last.st = RAISED
            /\ run[p].pc \notin Terminal => run[p].exit = -1)

\* C18, as claimed: every run ends, after at most 30 authentication
\* attempts, completed, timed out or without the client id (a run that
\* stops elsewhere had a request that was not answered), and no request is
\* issued twice for the same resource.
C18_TerminatesOncePerResource ==
    /\ EndsWithinBudget
    /\ [](\A p \in Procs : \A j, k \in 1..Len(run[p].log) :
            (/\ run[p].log[j].m = run[p].log[k].m
             /\ run[p].log[j].res = run[p].log[k].res
             /\ run[p].log[j].key = run[p].log[k].key) => j = k)

\* the most requests one run issues
MaxRequests == 3 + 2 * Len(CLIENT_ROLES) + 5

\* C18, amended: every run ends as above, and nothing is retried: a write
\* (POST, PUT) is issued at most once per resource, and a lookup at most
\* once per function and resource, but for the user, whom
\* create_microservices_admin_user() looks up once more right after the
\* create that was answered 201.  The client and the MICROSERVICES_ADMIN
\* role are each looked up by two functions.
C18_TerminatesNoRetry ==
    /\ EndsWithinBudget
    /\ [](\A p \in Procs :
            /\ Len(run[p].log) <= MaxRequests
            /\ \A j, k \in 1..Len(run[p].log) :
                 (/\ j < k
                  /\ run[p].log[j].m = run[p].log[k].m
                  /\ run[p].log[j].res = run[p].log[k].res
                  /\ run[p].log[j].key = run[p].log[k].key) =>
                     /\ run[p].log[j].m = "GET"
                     /\ \/ run[p].log[j].fn # run[p].log[k].fn
                        \/ /\ run[p].log[j].res = "user" /\ k = j + 2
                           /\ run[p].log[j + 1].m = "POST" /\ run[p].log[j + 1].res = "user")
    /\ [][\A p \in Procs :
            (Issues(p, "GET", "user") /\ Where(run[p].log, LAMBDA e : e.res = "user") # {}) =>
                run[p].last.st = CREATED]_vars

\* a complete run after the last attempt of the budget: every request of
\* main() issued, the client and the user looked up twice
C18_Witness ==
    \E p \in Procs :
        /\ run[p].pc = "done" /\ run[p].calls = MaxAttempts
        /\ Len(run[p].log) = MaxRequests
        /\ Cardinality(Where(run[p].log, LAMBDA e : e.m = "GET" /\ e.res = "user")) = 2
        /\ Cardinality(Where(run[p].log, LAMBDA e : e.m = "GET" /\ e.res = "client")) = 2

\* C19: two runs interleaved in any way against a healthy Keycloak both end
\* at the end of main() with status 0, no key is ever held twice, and once
\* both have ended the realm holds exactly one 'microservices' client, one
\* role per name of CLIENT_ROLES, one 'microservices-admin' user, and that
\* user holds MICROSERVICES_ADMIN of that client exactly once.
C19_TwoRunsInterleaved ==
    /\ <>(\A p \in Pair : run[p].pc = "done")
    /\ [](/\ NoDuplicates
          /\ \A p \in Pair : run[p].pc \in Terminal => run[p].pc = "done" /\ run[p].exit = 0
          /\ (\A p \in Pair : run[p].pc \in Terminal) =>
                /\ Cardinality({c \in clients : c.rep.clientId = CLIENT_ID}) = 1
                /\ \A n \in 1..Len(CLIENT_ROLES) :
                       Cardinality(RoleNamed(CLIENT_ROLES[n].name)) = 1
                /\ Cardinality({u \in users : u.rep.username = MICROSERVICES_ADMIN_USER.username}) = 1
                /\ \A u \in users : \A c \in clients :
                       TimesMapped([user |-> u.id, client |-> c.id, role |-> "MICROSERVICES_ADMIN"]) = 1
                /\ Len(mappings) = 1)

\* both runs found no client and no user: the creates of one were answered
\* with the conflict status, the other assigned the role
C19_Witness ==
    \E p, q \in Pair :
        /\ p # q /\ run[p].pc = "done" /\ run[q].pc = "done"
        /\ prev.realm[1] = {} /\ prev.realm[3] = {}
        /\ Where(run[p].log, LAMBDA e : e.m = "POST" /\ e.res = "client") # {}
        /\ Where(run[q].log, LAMBDA e : e.m = "POST" /\ e.res = "client") # {}
        /\ Last(run[q].log).m = "POST" /\ Last(run[q].log).res = "user"
        /\ run[q].last.st = CONFLICT
        /\ run[p].assigned = "ok"

====
